---------------------------- MODULE Spec2Model ----------------------------
(***************************************************************************)
(* A model of cluster_email_alerts.py: the three check families (quota,    *)
(* cluster capacity, replication), the history file they share and the     *)
(* notifications they hand to the mailer.                                  *)
(*                                                                         *)
(* Representation.                                                         *)
(*   - A Python dict that is only looked up is a TLA+ function             *)
(*     (history namespaces, quota_rules).  A dict that the code iterates,  *)
(*     and whose order therefore decides the order of the e-mails, is a    *)
(*     sequence of records in insertion order (the rules of a rule set,    *)
(*     the quota listing, alert_quotas, notify_quotas).                    *)
(*   - pct_used is kept in hundredths of a percent (round(x, 2) has two    *)
(*     decimals), so 91.0 is 9100; thresholds stay the configured numbers. *)
(*   - A history entry of the quota family is the rule_info the code       *)
(*     stores, projected to the fields that vary from run to run           *)
(*     (alert_threshold, pct_used).                                        *)
(*   - The history file holds JSON text: an object is the list of its      *)
(*     members <<key, value>>, written by json.dumps and read by           *)
(*     json.load; a file may also be absent or hold text that is not JSON. *)
(*   - An exception that nothing catches (the mailer's, a KeyError, a      *)
(*     ZeroDivisionError) and sys.exit end the check and the process; the  *)
(*     check records which one in run.error.                               *)
(*                                                                         *)
(* Specifications.                                                         *)
(*   Spec          the checks of the three families, one at a time and in  *)
(*                 any order, on any configuration and metrics, each       *)
(*                 possibly run again on unchanged inputs.                 *)
(*   MainSpec      invocations of main: the three checks in the order of   *)
(*                 cluster_checks, up to the exit status.                  *)
(*   OverlapSpec   two invocations on one history file, a check of each    *)
(*                 split between its load_history and the rest.            *)
(*   ResolverSpec  calls of process_quotas_and_rules.                      *)
(*   HumanizeSpec  calls of humanize_bytes.                                *)
(*   SeriesSpec    runs of one check that follow one another on the same   *)
(*                 history file while the metrics change or stay.          *)
(***************************************************************************)
EXTENDS Integers, Sequences, FiniteSets, TLC

VARIABLES
    history_file,   \* the history file on disk: [exists, json, members]
    run,            \* the last check that ran: its inputs, what it computed,
                    \* what it handed to the mailer and how it ended
    main,           \* an invocation of main: where it is, the checks it has
                    \* run and its exit code
    invocations,    \* two invocations that share the history file: what each
                    \* has loaded and what it did with it
    resolver,       \* a call of process_quotas_and_rules: arguments and result
    humanize,       \* a call of humanize_bytes: arguments and result
    series          \* the runs of one check that followed one another on the
                    \* same history file, oldest first

vars == <<history_file, run, main, invocations, resolver, humanize, series>>

---------------------------------------------------------------------------
(* Bounds and input sets                                                   *)

\* Replication relationships listed on each side (source- and
\* target-initiated); every subset of them may report an error.
MaxRel == 1

\* exceeded_threshold = None (no threshold exceeded yet).
None == -1

\* The configured threshold lists: ascending, descending, and with a 0.
ThresholdLists == {<<90, 95>>, <<95, 90>>, <<0, 90>>, <<90, 0>>}

\* Used bytes of a quota of 100 bytes, and of a cluster of 100 bytes.
UsedBytes == {50, 91, 96}

\* What read_fs_stats returns.
FsStats == {[total_size_bytes |-> 100, free_size_bytes |-> 100 - u] : u \in UsedBytes}

Rule(n, t) == [name |-> n, thresholds |-> t]

\* config['default_quota_rules']['rules'] and config['quota_rules'][path]['rules']
DefaultQuotaRules == <<Rule("warn", <<90>>)>>

ExplicitQuotaRules ==
    {<<Rule("warn", t)>> : t \in ThresholdLists}
        \cup {<<Rule("warn", <<90, 95>>), Rule("crit", <<95>>)>>}

\* config['quota_rules']: nothing, or explicit rules for "/eng".
QuotaRuleConfigs ==
    {<<>>} \cup {[p \in {"/eng"} |-> [rules |-> r]] : r \in ExplicitQuotaRules}

\* The keys of the configuration that quota_capacity_check reads; a
\* configuration file may lack either of them.
QuotaConfigs ==
    {[quota_rules |-> q, default_quota_rules |-> [rules |-> DefaultQuotaRules]] :
        q \in QuotaRuleConfigs}
        \cup {[default_quota_rules |-> [rules |-> DefaultQuotaRules]],
              [quota_rules |-> <<>>]}

\* The quota listing of the cluster: "/eng" and "/ops", each present or not;
\* the limit of "/ops" may be 0.
QuotaRecord(p, u, l) == [path |-> p, capacity_usage |-> u, limit |-> l]

QuotaListings ==
    {SelectSeq(<<e, o>>, LAMBDA q : q.capacity_usage >= 0) :
        e \in {QuotaRecord("/eng", u, 100) : u \in UsedBytes \cup {-1}},
        o \in {QuotaRecord("/ops", 91, 100), QuotaRecord("/ops", -1, 100),
               QuotaRecord("/ops", 91, 0)}}

\* config['capacity_rules']
CapacityRuleConfigs ==
    {<<>>, <<Rule("crit", <<95>>)>>,
     <<Rule("warn", <<90, 95>>), Rule("crit", <<95>>)>>}
        \cup {<<Rule("warn", t)>> : t \in ThresholdLists}

\* The key of the configuration that cluster_capacity_check reads, or a
\* configuration without it.
CapacityConfigs == {[capacity_rules |-> c] : c \in CapacityRuleConfigs} \cup {<<>>}

\* config['replication_rules']: rule name and the rule_info stored as marker.
ReplRule(n) == [name |-> n, info |-> [mail_to |-> "admin"]]

ReplicationRuleConfigs ==
    {<<>>, <<ReplRule("warn")>>, <<ReplRule("crit")>>,
     <<ReplRule("warn"), ReplRule("crit")>>}

\* The key of the configuration that replication_status_check reads, or a
\* configuration without it.
ReplicationConfigs ==
    {[replication_rules |-> c] : c \in ReplicationRuleConfigs} \cup {<<>>}

Relationship(side, i, err) == [side |-> side, id |-> i, error_from_last_job |-> err]

\* What list_source/target_relationship_statuses return: relationships
\* 1..MaxRel on a side, each with or without an error from its last job.
RelationshipLists(side) ==
    {[i \in 1..MaxRel |-> Relationship(side, i, i \in errs)] :
        errs \in SUBSET (1..MaxRel)}

---------------------------------------------------------------------------
(* Dict helpers                                                            *)

EmptyDict == <<>>

Put(d, k, v) == [x \in DOMAIN d \cup {k} |-> IF x = k THEN v ELSE d[x]]

Del(d, k) == [x \in DOMAIN d \ {k} |-> d[x]]

Names(rules) == {rules[i].name : i \in DOMAIN rules}

\* Faulty variant: {**b, **a}, the fields of the first dict win.
Merge_FirstWins(a, b) ==
    [k \in DOMAIN a \cup DOMAIN b |-> IF k \in DOMAIN a THEN a[k] ELSE b[k]]

\* {**a, **b}
Merge(a, b) == [k \in DOMAIN a \cup DOMAIN b |-> IF k \in DOMAIN b THEN b[k] ELSE a[k]]

---------------------------------------------------------------------------
(* History store                                                           *)

EmptyHistory == [quotas |-> EmptyDict, capacity |-> EmptyDict, replication |-> EmptyDict]

\* The keys of a dict, in the order json.dumps writes them.
RECURSIVE KeyOrder(_)
KeyOrder(keys) ==
    IF keys = {} THEN <<>>
    ELSE LET k == CHOOSE x \in keys : TRUE
         IN  <<k>> \o KeyOrder(keys \ {k})

\* The JSON object written for a dict: its members <<key, value>>, one per
\* key.
JsonObject(d) ==
    LET keys == KeyOrder(DOMAIN d)
    IN  [i \in DOMAIN keys |-> <<keys[i], d[keys[i]]>>]

\* The dict read from a JSON object: a key maps to the value of its last
\* member.
JsonDict(members) ==
    [k \in {members[i][1] : i \in DOMAIN members} |->
        members[CHOOSE i \in DOMAIN members :
                    /\ members[i][1] = k
                    /\ \A j \in DOMAIN members : members[j][1] = k => j <= i][2]]

\* An entry of the history: the dict of a rule's fields, numbers and strings
\* that are written and read as they are.
DumpEntry(rule_info) == JsonObject(rule_info)

LoadEntry(members) == JsonDict(members)

\* A dict of entries by rule name: history['capacity'],
\* history['replication'], history['quotas'][path].
DumpRules(rules) ==
    LET members == JsonObject(rules)
    IN  [i \in DOMAIN members |-> <<members[i][1], DumpEntry(members[i][2])>>]

LoadRules(members) ==
    LET rules == JsonDict(members)
    IN  [k \in DOMAIN rules |-> LoadEntry(rules[k])]

\* history['quotas']: a dict of rules by path.
DumpQuotas(quotas) ==
    LET members == JsonObject(quotas)
    IN  [i \in DOMAIN members |-> <<members[i][1], DumpRules(members[i][2])>>]

LoadQuotas(members) ==
    LET quotas == JsonDict(members)
    IN  [k \in DOMAIN quotas |-> LoadRules(quotas[k])]

\* json.dumps(history): the text of the history file.
json_dumps(history) ==
    << <<"quotas", DumpQuotas(history.quotas)>>,
       <<"capacity", DumpRules(history.capacity)>>,
       <<"replication", DumpRules(history.replication)>> >>

\* json.load of a history file's text.
json_load(members) ==
    LET data == JsonDict(members)
    IN  [quotas |-> LoadQuotas(data.quotas),
         capacity |-> LoadRules(data.capacity),
         replication |-> LoadRules(data.replication)]

\* A file: whether it exists, whether its text is valid JSON, and the members
\* of the JSON object it holds.
NoFile == [exists |-> FALSE, json |-> FALSE, members |-> <<>>]

\* A history file whose text json.load rejects.
InvalidJsonFile == [exists |-> TRUE, json |-> FALSE, members |-> <<>>]

\* Faulty variant: the ValueError of json.load is swallowed and the blank
\* history returned.
load_json_Lenient(file) ==
    IF file.json THEN [exit |-> FALSE, data |-> json_load(file.members)]
    ELSE [exit |-> FALSE, data |-> EmptyHistory]

\* load_json: the data of the file, or sys.exit('Invalid JSON file ...') on
\* the ValueError of json.load.
load_json(file) ==
    IF file.json THEN [exit |-> FALSE, data |-> json_load(file.members)]
    ELSE [exit |-> TRUE, data |-> EmptyHistory]

\* Faulty variant: a missing history file ends the process, as a missing
\* configuration file does.
load_history_Strict(file) ==
    IF file.exists THEN load_json(file)
    ELSE [exit |-> TRUE, data |-> EmptyHistory]

\* load_history: the file's content, or the blank history when there is none.
load_history(file) ==
    IF file.exists THEN load_json(file)
    ELSE [exit |-> FALSE, data |-> EmptyHistory]

\* Faulty variant: the file is opened with 'a'; a second JSON document after
\* the first is text json.load rejects.
save_history_Appends(file, history) ==
    IF file.exists
    THEN [exists |-> TRUE, json |-> FALSE, members |-> file.members \o json_dumps(history)]
    ELSE [exists |-> TRUE, json |-> TRUE, members |-> json_dumps(history)]

\* save_history: open(history_file, 'w') and write json.dumps(history); the
\* previous content of the file is gone.
save_history(file, history) ==
    [exists |-> TRUE, json |-> TRUE, members |-> json_dumps(history)]

---------------------------------------------------------------------------
(* Threshold evaluator                                                     *)

\* round((float(used) / float(limit)) * 100, 2), in hundredths of a percent.
\* (The byte counts of the model are exact multiples, so no tie is rounded.)
PctUsed(used, limit) == ((2 * used * 10000) + limit) \div (2 * limit)

\* pct_used > threshold
Exceeds(pct_used, threshold) == pct_used > threshold * 100

\* The quota loop "for threshold in rule['thresholds']" after its first n
\* rounds, started from alert_threshold = 0: the last exceeded threshold.
RECURSIVE QuotaAlertThreshold(_, _, _)
QuotaAlertThreshold(pct_used, thresholds, n) ==
    IF n = 0 THEN 0
    ELSE IF Exceeds(pct_used, thresholds[n]) THEN thresholds[n]
    ELSE QuotaAlertThreshold(pct_used, thresholds, n - 1)

\* "if alert_threshold > 0": the rule goes into alert_rules.
QuotaRuleAlerts(alert_threshold) == alert_threshold > 0

\* The capacity loop, started from exceeded_threshold = None.
RECURSIVE CapacityExceededThreshold(_, _, _)
CapacityExceededThreshold(used_pct, thresholds, n) ==
    IF n = 0 THEN None
    ELSE IF Exceeds(used_pct, thresholds[n]) THEN thresholds[n]
    ELSE CapacityExceededThreshold(used_pct, thresholds, n - 1)

\* Python's truth value of exceeded_threshold: None and 0 are false.
Truthy(exceeded_threshold) == exceeded_threshold # None /\ exceeded_threshold # 0

---------------------------------------------------------------------------
(* Quota family                                                            *)

\* process_quotas_and_rules: the quotas by path, those with an explicit entry
\* first, then the others with the default rules
\* ({**defined_quotas, **undefined_quotas}); a KeyError when the
\* configuration lacks quota_rules or default_quota_rules.
process_quotas_and_rules(quotas, config) ==
    IF {"quota_rules", "default_quota_rules"} \subseteq DOMAIN config
    THEN LET defined_rules == config.quota_rules
             undefined_rules == config.default_quota_rules
             defined == SelectSeq(quotas, LAMBDA q : q.path \in DOMAIN defined_rules)
             undefined == SelectSeq(quotas, LAMBDA q : q.path \notin DOMAIN defined_rules)
         IN  [KeyError |-> FALSE,
              processed_quotas |->
                  [i \in DOMAIN defined |->
                      [path |-> defined[i].path,
                       quota |-> Merge(defined[i], defined_rules[defined[i].path])]]
                  \o [i \in DOMAIN undefined |->
                      [path |-> undefined[i].path,
                       quota |-> Merge(undefined[i], undefined_rules)]]]
    ELSE [KeyError |-> TRUE, processed_quotas |-> <<>>]

\* Every (path, rule) get_alerting_quotas looks at, with what it computes.
QuotaEvaluated(path, quota) ==
    LET pct_used == PctUsed(quota.capacity_usage, quota.limit)
    IN  [j \in DOMAIN quota.rules |->
            [target |-> path, rule |-> quota.rules[j].name,
             thresholds |-> quota.rules[j].thresholds, pct_used |-> pct_used,
             alert_threshold |->
                QuotaAlertThreshold(pct_used, quota.rules[j].thresholds,
                                    Len(quota.rules[j].thresholds))]]

\* alert_rules of one quota: the rules in an alert state, in rule order.
AlertRules(path, quota) ==
    LET ev == QuotaEvaluated(path, quota)
        alerting == SelectSeq(ev, LAMBDA e : QuotaRuleAlerts(e.alert_threshold))
    IN  [j \in DOMAIN alerting |->
            [name |-> alerting[j].rule,
             info |-> [alert_threshold |-> alerting[j].alert_threshold,
                       pct_used |-> alerting[j].pct_used]]]

\* get_alerting_quotas: the quotas that have at least one alerting rule; a
\* ZeroDivisionError when the limit of a quota is 0.
get_alerting_quotas(quotas) ==
    IF \E i \in DOMAIN quotas : quotas[i].quota.limit = 0
    THEN [ZeroDivisionError |-> TRUE, alert_quotas |-> <<>>]
    ELSE [ZeroDivisionError |-> FALSE,
          alert_quotas |->
              SelectSeq([i \in DOMAIN quotas |->
                            [path |-> quotas[i].path,
                             rules |-> AlertRules(quotas[i].path, quotas[i].quota)]],
                        LAMBDA a : a.rules # <<>>)]

\* A sequence of [name, info] as the dict the history stores.
RulesDict(rules) ==
    [n \in Names(rules) |-> (CHOOSE r \in {rules[j] : j \in DOMAIN rules} : r.name = n).info]

\* Faulty variant: the comparison with the recorded threshold is not strict.
QuotaEscalates_NotStrict(rule_info, recorded) ==
    rule_info.alert_threshold >= recorded.alert_threshold

\* rule_info['alert_threshold'] > history[...][rule_name]['alert_threshold']
QuotaEscalates(rule_info, recorded) == rule_info.alert_threshold > recorded.alert_threshold

\* The rule loop of an existing quota after its first m rules:
\* a rule new to the history or above its recorded threshold is notified;
\* every alerting rule is written to the history.
RECURSIVE ExistingQuotaRules(_, _, _)
ExistingQuotaRules(alert_rules, hist_rules, m) ==
    IF m = 0 THEN [notify |-> <<>>, rules |-> hist_rules]
    ELSE LET prev == ExistingQuotaRules(alert_rules, hist_rules, m - 1)
             r == alert_rules[m]
         IN  IF r.name \notin DOMAIN prev.rules
             THEN [notify |-> Append(prev.notify, r),
                   rules |-> Put(prev.rules, r.name, r.info)]
             ELSE IF QuotaEscalates(r.info, prev.rules[r.name])
             THEN [notify |-> Append(prev.notify, r),
                   rules |-> Put(prev.rules, r.name, r.info)]
             ELSE [notify |-> prev.notify,
                   rules |-> Put(prev.rules, r.name, r.info)]

\* The first loop of process_quotas_with_history after its first n quotas.
RECURSIVE QuotaHistoryLoop(_, _, _)
QuotaHistoryLoop(alert_quotas, quotas, n) ==
    IF n = 0 THEN [notify_quotas |-> <<>>, quotas |-> quotas]
    ELSE LET prev == QuotaHistoryLoop(alert_quotas, quotas, n - 1)
             a == alert_quotas[n]
         IN  IF a.path \notin DOMAIN prev.quotas
             THEN [notify_quotas |-> Append(prev.notify_quotas, a),
                   quotas |-> Put(prev.quotas, a.path, RulesDict(a.rules))]
             ELSE LET e == ExistingQuotaRules(a.rules, prev.quotas[a.path], Len(a.rules))
                  IN  [notify_quotas |->
                          Append(prev.notify_quotas, [path |-> a.path, rules |-> e.notify]),
                       quotas |-> Put(prev.quotas, a.path, e.rules)]

\* Faulty variant: the clean-up removes the quotas that no longer alert but
\* not the rules of a quota that still does.
QuotaCleanup_KeepsRules(alert_quotas, quotas) ==
    LET alerting == {alert_quotas[i].path : i \in DOMAIN alert_quotas}
    IN  [q \in {x \in DOMAIN quotas : x \in alerting} |-> quotas[q]]

\* The clean-up of process_quotas_with_history: quotas_to_remove and
\* rules_to_remove are collected first and deleted afterwards.
QuotaCleanup(alert_quotas, quotas) ==
    LET alerting == {alert_quotas[i].path : i \in DOMAIN alert_quotas}
        rulesOf(p) ==
            Names((CHOOSE a \in {alert_quotas[i] : i \in DOMAIN alert_quotas} :
                       a.path = p).rules)
        quotas_to_remove == {q \in DOMAIN quotas : q \notin alerting}
        rules_to_remove ==
            {qr \in UNION {{<<q, r>> : r \in DOMAIN quotas[q]} :
                              q \in DOMAIN quotas \ quotas_to_remove} :
                qr[2] \notin rulesOf(qr[1])}
    IN  [q \in DOMAIN quotas \ quotas_to_remove |->
            [r \in {x \in DOMAIN quotas[q] : <<q, x>> \notin rules_to_remove} |->
                quotas[q][r]]]

\* Faulty variant: the history returned is built anew, with the quotas only.
process_quotas_with_history_FreshHistory(alert_quotas, history) ==
    LET loop == QuotaHistoryLoop(alert_quotas, history.quotas, Len(alert_quotas))
    IN  [notify_quotas |-> loop.notify_quotas,
         history |-> [EmptyHistory EXCEPT !.quotas = QuotaCleanup(alert_quotas, loop.quotas)]]

\* process_quotas_with_history: (notify_quotas, history)
process_quotas_with_history(alert_quotas, history) ==
    LET loop == QuotaHistoryLoop(alert_quotas, history.quotas, Len(alert_quotas))
    IN  [notify_quotas |-> loop.notify_quotas,
         history |-> [history EXCEPT !.quotas = QuotaCleanup(alert_quotas, loop.quotas)]]

\* The e-mails of quota_capacity_check, in the order of its two loops.
RECURSIVE QuotaNotifications(_, _)
QuotaNotifications(notify_quotas, n) ==
    IF n = 0 THEN <<>>
    ELSE QuotaNotifications(notify_quotas, n - 1)
            \o [j \in DOMAIN notify_quotas[n].rules |->
                    [target |-> notify_quotas[n].path,
                     rule |-> notify_quotas[n].rules[j].name,
                     alert_threshold |-> notify_quotas[n].rules[j].info.alert_threshold]]

RECURSIVE ConcatAll(_, _)
ConcatAll(seqs, n) == IF n = 0 THEN <<>> ELSE ConcatAll(seqs, n - 1) \o seqs[n]

\* What a check that ends before it evaluates anything leaves behind.
Aborted(family, file, config, metrics, history, error) ==
    [file |-> file,
     run |-> [family |-> family, config |-> config, metrics |-> metrics,
              file |-> file, loaded |-> history, evaluated |-> <<>>,
              notify |-> <<>>, failAt |-> 0, error |-> error, saves |-> 0,
              computed |-> history, repeat |-> FALSE]]

\* Faulty variant: the history is saved before the e-mails are sent, as the
\* other two families do.
quota_capacity_check_SavesBeforeMail(file, config, listing, failAt) ==
    LET loaded == load_history(file)
        history == loaded.data
        processed == process_quotas_and_rules(listing, config)
        alerting == get_alerting_quotas(processed.processed_quotas)
        res == process_quotas_with_history(alerting.alert_quotas, history)
        notify == QuotaNotifications(res.notify_quotas, Len(res.notify_quotas))
        raised == failAt > 0 /\ failAt <= Len(notify)
    IN  IF loaded.exit
            THEN Aborted("quota", file, config, listing, history, "SystemExit")
        ELSE IF processed.KeyError
            THEN Aborted("quota", file, config, listing, history, "KeyError")
        ELSE IF alerting.ZeroDivisionError
            THEN Aborted("quota", file, config, listing, history, "ZeroDivisionError")
        ELSE [file |-> save_history(file, res.history),
              run |-> [family |-> "quota",
                       config |-> config,
                       metrics |-> listing,
                       file |-> file,
                       loaded |-> history,
                       evaluated |->
                           ConcatAll([i \in DOMAIN processed.processed_quotas |->
                                         QuotaEvaluated(processed.processed_quotas[i].path,
                                                        processed.processed_quotas[i].quota)],
                                     Len(processed.processed_quotas)),
                       notify |-> notify,
                       failAt |-> IF raised THEN failAt ELSE 0,
                       error |-> IF raised THEN "mail" ELSE "none",
                       saves |-> 1,
                       computed |-> res.history,
                       repeat |-> FALSE]]

\* quota_capacity_check on the history file `file`: the file it leaves and
\* what it did.  The mailer may raise on any e-mail (failAt = k: the k-th
\* quota_send_alert raises and the exception ends the process); the history
\* is saved after the last e-mail, so only when none raised.
quota_capacity_check(file, config, listing, failAt) ==
    LET loaded == load_history(file)
        history == loaded.data
        processed == process_quotas_and_rules(listing, config)
        alerting == get_alerting_quotas(processed.processed_quotas)
        res == process_quotas_with_history(alerting.alert_quotas, history)
        notify == QuotaNotifications(res.notify_quotas, Len(res.notify_quotas))
        raised == failAt > 0 /\ failAt <= Len(notify)
    IN  IF loaded.exit
            THEN Aborted("quota", file, config, listing, history, "SystemExit")
        ELSE IF processed.KeyError
            THEN Aborted("quota", file, config, listing, history, "KeyError")
        ELSE IF alerting.ZeroDivisionError
            THEN Aborted("quota", file, config, listing, history, "ZeroDivisionError")
        ELSE [file |-> IF raised THEN file ELSE save_history(file, res.history),
              run |-> [family |-> "quota",
                       config |-> config,
                       metrics |-> listing,
                       file |-> file,
                       loaded |-> history,
                       evaluated |->
                           ConcatAll([i \in DOMAIN processed.processed_quotas |->
                                         QuotaEvaluated(processed.processed_quotas[i].path,
                                                        processed.processed_quotas[i].quota)],
                                     Len(processed.processed_quotas)),
                       notify |-> notify,
                       failAt |-> IF raised THEN failAt ELSE 0,
                       error |-> IF raised THEN "mail" ELSE "none",
                       saves |-> IF raised THEN 0 ELSE 1,
                       computed |-> res.history,
                       repeat |-> FALSE]]

---------------------------------------------------------------------------
(* Capacity family                                                         *)

\* cluster_get_fs_usage: (total_capacity, used_capacity, used_capacity_pct)
cluster_get_fs_usage(fs_stats) ==
    LET total_capacity == fs_stats.total_size_bytes
        used_capacity == fs_stats.total_size_bytes - fs_stats.free_size_bytes
    IN  [total |-> total_capacity, used |-> used_capacity,
         used_pct |-> PctUsed(used_capacity, total_capacity)]

\* Faulty variant: the comparison with the recorded threshold is not strict.
CapacityEscalates_NotStrict(exceeded_threshold, recorded) ==
    exceeded_threshold >= recorded.alert_threshold

\* exceeded_threshold > history['capacity'][rule_name]['alert_threshold']
CapacityEscalates(exceeded_threshold, recorded) == exceeded_threshold > recorded.alert_threshold

\* Faulty variant: a suppressed repeat rewrites the entry with the current threshold,
\* as the quota family does.
cluster_capacity_process_rule_Refreshes(rule_name, rule_info, used_pct, history) ==
    LET exceeded_threshold ==
            CapacityExceededThreshold(used_pct, rule_info.thresholds, Len(rule_info.thresholds))
        entry == [alert_threshold |-> exceeded_threshold]
        known == rule_name \in DOMAIN history.capacity
        send_alert ==
            /\ Truthy(exceeded_threshold)
            /\ known => CapacityEscalates(exceeded_threshold, history.capacity[rule_name])
        capacity ==
            IF Truthy(exceeded_threshold) THEN Put(history.capacity, rule_name, entry)
            ELSE IF known THEN Del(history.capacity, rule_name)
                 ELSE history.capacity
    IN  [send_alert |-> send_alert,
         exceeded_threshold |-> exceeded_threshold,
         history |-> [history EXCEPT !.capacity = capacity]]

\* cluster_capacity_process_rule, up to its save_history:
\* (send_alert, exceeded_threshold) and the history it saves.
cluster_capacity_process_rule(rule_name, rule_info, used_pct, history) ==
    LET exceeded_threshold ==
            CapacityExceededThreshold(used_pct, rule_info.thresholds, Len(rule_info.thresholds))
        entry == [alert_threshold |-> exceeded_threshold]
        known == rule_name \in DOMAIN history.capacity
        send_alert ==
            /\ Truthy(exceeded_threshold)
            /\ known => CapacityEscalates(exceeded_threshold, history.capacity[rule_name])
        capacity ==
            IF Truthy(exceeded_threshold)
            THEN IF send_alert THEN Put(history.capacity, rule_name, entry)
                 ELSE history.capacity
            ELSE IF known THEN Del(history.capacity, rule_name)
                 ELSE history.capacity
    IN  [send_alert |-> send_alert,
         exceeded_threshold |-> exceeded_threshold,
         history |-> [history EXCEPT !.capacity = capacity]]

\* Faulty variant: the history of a rule is saved after its e-mail is sent,
\* so not at all when the e-mail raises.
RECURSIVE CapacityLoop_SavesAfterMail(_, _, _, _, _, _)
CapacityLoop_SavesAfterMail(rules, used_pct, history, file, failAt, n) ==
    IF n = 0
    THEN [history |-> history, file |-> file, notify |-> <<>>, evaluated |-> <<>>,
          raised |-> FALSE, saves |-> 0]
    ELSE LET prev == CapacityLoop_SavesAfterMail(rules, used_pct, history, file, failAt, n - 1)
             r == cluster_capacity_process_rule(rules[n].name, rules[n], used_pct, prev.history)
             notify ==
                 IF r.send_alert
                 THEN Append(prev.notify,
                             [target |-> "cluster", rule |-> rules[n].name,
                              alert_threshold |-> r.exceeded_threshold])
                 ELSE prev.notify
             raised == r.send_alert /\ Len(notify) = failAt
         IN  IF prev.raised THEN prev
             ELSE [history |-> r.history,
                   file |-> IF raised THEN prev.file ELSE save_history(prev.file, r.history),
                   notify |-> notify,
                   evaluated |->
                       Append(prev.evaluated,
                              [target |-> "cluster", rule |-> rules[n].name,
                               thresholds |-> rules[n].thresholds, pct_used |-> used_pct,
                               alert_threshold |-> r.exceeded_threshold]),
                   raised |-> raised,
                   saves |-> IF raised THEN prev.saves ELSE prev.saves + 1]

\* The rule loop of cluster_capacity_check after its first n rules.  Every
\* rule saves the history before its e-mail is sent; the e-mail that raises
\* (the failAt-th) ends the process, and the later rules are never looked at.
RECURSIVE CapacityLoop(_, _, _, _, _, _)
CapacityLoop(rules, used_pct, history, file, failAt, n) ==
    IF n = 0
    THEN [history |-> history, file |-> file, notify |-> <<>>, evaluated |-> <<>>,
          raised |-> FALSE, saves |-> 0]
    ELSE LET prev == CapacityLoop(rules, used_pct, history, file, failAt, n - 1)
             r == cluster_capacity_process_rule(rules[n].name, rules[n], used_pct, prev.history)
             notify ==
                 IF r.send_alert
                 THEN Append(prev.notify,
                             [target |-> "cluster", rule |-> rules[n].name,
                              alert_threshold |-> r.exceeded_threshold])
                 ELSE prev.notify
         IN  IF prev.raised THEN prev
             ELSE [history |-> r.history,
                   file |-> save_history(prev.file, r.history),
                   notify |-> notify,
                   evaluated |->
                       Append(prev.evaluated,
                              [target |-> "cluster", rule |-> rules[n].name,
                               thresholds |-> rules[n].thresholds, pct_used |-> used_pct,
                               alert_threshold |-> r.exceeded_threshold]),
                   raised |-> r.send_alert /\ Len(notify) = failAt,
                   saves |-> prev.saves + 1]

\* cluster_capacity_check on the history file `file`; a KeyError when the
\* configuration lacks capacity_rules.
cluster_capacity_check(file, config, fs_stats, failAt) ==
    LET loaded == load_history(file)
        history == loaded.data
        usage == cluster_get_fs_usage(fs_stats)
        loop == CapacityLoop(config.capacity_rules, usage.used_pct, history, file,
                             failAt, Len(config.capacity_rules))
    IN  IF loaded.exit
            THEN Aborted("capacity", file, config, fs_stats, history, "SystemExit")
        ELSE IF "capacity_rules" \notin DOMAIN config
            THEN Aborted("capacity", file, config, fs_stats, history, "KeyError")
        ELSE [file |-> loop.file,
              run |-> [family |-> "capacity",
                       config |-> config,
                       metrics |-> fs_stats,
                       file |-> file,
                       loaded |-> history,
                       evaluated |-> loop.evaluated,
                       notify |-> loop.notify,
                       failAt |-> IF loop.raised THEN failAt ELSE 0,
                       error |-> IF loop.raised THEN "mail" ELSE "none",
                       saves |-> loop.saves,
                       computed |-> loop.history,
                       repeat |-> FALSE]]

---------------------------------------------------------------------------
(* Replication family                                                      *)

\* Faulty variant: the target-initiated relationships are left out.
ErrRelationships_SourceOnly(src_relationships, tgt_relationships) ==
    SelectSeq(src_relationships, LAMBDA r : r.error_from_last_job)

\* err_relationships: the source-initiated relationships with an error from
\* their last job, then the target-initiated ones.
ErrRelationships(src_relationships, tgt_relationships) ==
    SelectSeq(src_relationships, LAMBDA r : r.error_from_last_job)
        \o SelectSeq(tgt_relationships, LAMBDA r : r.error_from_last_job)

\* Faulty variant: the alert is sent whenever a relationship has an error,
\* whether the rule is in the history or not.
replication_process_rules_AlwaysAlerts(rule_name, rule_info, err_relationships, history) ==
    [send_alert |-> err_relationships # <<>>,
     history |->
        [history EXCEPT !.replication =
            IF err_relationships # <<>> THEN Put(history.replication, rule_name, rule_info)
            ELSE IF rule_name \in DOMAIN history.replication
                 THEN Del(history.replication, rule_name)
                 ELSE history.replication]]

\* replication_process_rules, up to its save_history:
\* send_alert and the history it saves.
replication_process_rules(rule_name, rule_info, err_relationships, history) ==
    LET known == rule_name \in DOMAIN history.replication
        send_alert == err_relationships # <<>> /\ ~known
        replication ==
            IF err_relationships # <<>>
            THEN IF ~known THEN Put(history.replication, rule_name, rule_info)
                 ELSE history.replication
            ELSE IF known THEN Del(history.replication, rule_name)
                 ELSE history.replication
    IN  [send_alert |-> send_alert,
         history |-> [history EXCEPT !.replication = replication]]

\* The rule loop of replication_status_check after its first n rules.
RECURSIVE ReplicationLoop(_, _, _, _, _, _)
ReplicationLoop(rules, err_relationships, history, file, failAt, n) ==
    IF n = 0
    THEN [history |-> history, file |-> file, notify |-> <<>>, evaluated |-> <<>>,
          raised |-> FALSE, saves |-> 0]
    ELSE LET prev == ReplicationLoop(rules, err_relationships, history, file, failAt, n - 1)
             r == replication_process_rules(rules[n].name, rules[n].info,
                                            err_relationships, prev.history)
             notify ==
                 IF r.send_alert
                 THEN Append(prev.notify,
                             [target |-> "replication", rule |-> rules[n].name,
                              relationships |-> err_relationships])
                 ELSE prev.notify
         IN  IF prev.raised THEN prev
             ELSE [history |-> r.history,
                   file |-> save_history(prev.file, r.history),
                   notify |-> notify,
                   evaluated |-> Append(prev.evaluated, [rule |-> rules[n].name]),
                   raised |-> r.send_alert /\ Len(notify) = failAt,
                   saves |-> prev.saves + 1]

\* replication_status_check on the history file `file`; a KeyError when the
\* configuration lacks replication_rules.
replication_status_check(file, config, relationships, failAt) ==
    LET loaded == load_history(file)
        history == loaded.data
        err_relationships == ErrRelationships(relationships.src, relationships.tgt)
        loop == ReplicationLoop(config.replication_rules, err_relationships, history, file,
                                failAt, Len(config.replication_rules))
    IN  IF loaded.exit
            THEN Aborted("replication", file, config, relationships, history, "SystemExit")
        ELSE IF "replication_rules" \notin DOMAIN config
            THEN Aborted("replication", file, config, relationships, history, "KeyError")
        ELSE [file |-> loop.file,
              run |-> [family |-> "replication",
                       config |-> config,
                       metrics |-> relationships,
                       file |-> file,
                       loaded |-> history,
                       evaluated |-> loop.evaluated,
                       notify |-> loop.notify,
                       failAt |-> IF loop.raised THEN failAt ELSE 0,
                       error |-> IF loop.raised THEN "mail" ELSE "none",
                       saves |-> loop.saves,
                       computed |-> loop.history,
                       repeat |-> FALSE]]

---------------------------------------------------------------------------
(* Specification                                                           *)

\* No check is running: the locals of the last one are gone.
NoRun ==
    [family |-> "none", config |-> <<>>, metrics |-> <<>>, file |-> NoFile,
     loaded |-> EmptyHistory, evaluated |-> <<>>, notify |-> <<>>, failAt |-> 0,
     error |-> "none", saves |-> 0, computed |-> EmptyHistory, repeat |-> FALSE]

\* main has not been started.
NotStarted ==
    [pc |-> "not started", checks |-> <<>>, dispatched |-> FALSE, written |-> FALSE,
     history_left |-> NoFile, exit_code |-> 0]

\* Neither invocation has loaded the history.
NoInvocations == [p \in {1, 2} |-> [pc |-> "idle"]]

\* process_quotas_and_rules, or humanize_bytes, has not been called.
NoCall == [pc |-> "none"]

\* No check has run on the history file yet.
NoSeries == [family |-> "none", config |-> <<>>, runs |-> <<>>]

Init ==
    /\ history_file = NoFile
    /\ run = NoRun
    /\ main = NotStarted
    /\ invocations = NoInvocations
    /\ resolver = NoCall
    /\ humanize = NoCall
    /\ series = NoSeries

\* One check of a family on the inputs `config` and `metrics`.
Check(family, file, config, metrics, failAt) ==
    CASE family = "capacity" -> cluster_capacity_check(file, config, metrics, failAt)
      [] family = "quota" -> quota_capacity_check(file, config, metrics, failAt)
      [] family = "replication" -> replication_status_check(file, config, metrics, failAt)

\* The check runs; any of the e-mails it sends may be the one that raises.
Run(family, config, metrics, repeat) ==
    \E failAt \in 0..Len(Check(family, history_file, config, metrics, 0).run.notify) :
        \E r \in {Check(family, history_file, config, metrics, failAt)} :
            /\ history_file' = r.file
            /\ run' = [r.run EXCEPT !.repeat = repeat]

ClusterCapacityCheck ==
    /\ run = NoRun
    /\ \E config \in CapacityConfigs, fs_stats \in FsStats :
          Run("capacity", config, fs_stats, FALSE)
    /\ UNCHANGED <<main, invocations, resolver, humanize, series>>

QuotaCapacityCheck ==
    /\ run = NoRun
    /\ \E config \in QuotaConfigs, listing \in QuotaListings :
          Run("quota", config, listing, FALSE)
    /\ UNCHANGED <<main, invocations, resolver, humanize, series>>

ReplicationStatusCheck ==
    /\ run = NoRun
    /\ \E config \in ReplicationConfigs,
          src_relationships \in RelationshipLists("source"),
          tgt_relationships \in RelationshipLists("target") :
          Run("replication", config,
              [src |-> src_relationships, tgt |-> tgt_relationships], FALSE)
    /\ UNCHANGED <<main, invocations, resolver, humanize, series>>

\* The script is started again while neither the configuration nor the
\* metrics have changed since a check that ran to its end.
CheckAgain ==
    /\ run.family # "none"
    /\ run.error = "none"
    /\ ~run.repeat
    /\ Run(run.family, run.config, run.metrics, TRUE)
    /\ UNCHANGED <<main, invocations, resolver, humanize, series>>

\* The check has returned, or the process has died on the exception.
Return ==
    /\ run.family # "none"
    /\ run' = NoRun
    /\ UNCHANGED <<history_file, main, invocations, resolver, humanize, series>>

\* Between two runs of the script the history file is deleted.
HistoryFileRemoved ==
    /\ run = NoRun
    /\ main.pc \in {"not started", "exited"}
    /\ history_file.exists
    /\ history_file' = NoFile
    /\ UNCHANGED <<run, main, invocations, resolver, humanize, series>>

\* Between two runs of the script the history file is damaged (truncated,
\* edited by hand): its text is no longer valid JSON.
HistoryFileDamaged ==
    /\ run = NoRun
    /\ main.pc \in {"not started", "exited"}
    /\ history_file # InvalidJsonFile
    /\ history_file' = InvalidJsonFile
    /\ UNCHANGED <<run, main, invocations, resolver, humanize, series>>

Next ==
    \/ ClusterCapacityCheck
    \/ QuotaCapacityCheck
    \/ ReplicationStatusCheck
    \/ CheckAgain
    \/ Return
    \/ HistoryFileRemoved
    \/ HistoryFileDamaged

Spec == Init /\ [][Next]_vars

---------------------------------------------------------------------------
(* An invocation of main                                                   *)

\* The configurations and metrics of the invocations of main: each check
\* reads its own keys of the configuration, which may lack them.
MainCapacityConfigs ==
    {<<>>, [capacity_rules |-> <<Rule("warn", <<90, 95>>), Rule("crit", <<95>>)>>]}

MainQuotaConfigs ==
    {[default_quota_rules |-> [rules |-> DefaultQuotaRules]],
     [quota_rules |-> <<>>, default_quota_rules |-> [rules |-> DefaultQuotaRules]]}

MainReplicationConfigs ==
    {<<>>, [replication_rules |-> <<ReplRule("warn"), ReplRule("crit")>>]}

\* cluster_checks, in the order of the list.
cluster_checks == <<"capacity", "quota", "replication">>

\* Faulty variant: the loop leaves the quota check out.
NextCheck_SkipsQuota(n) ==
    IF n = 1 THEN "replication"
    ELSE IF n < Len(cluster_checks) THEN cluster_checks[n + 1] ELSE "return"

\* "for cluster_check in cluster_checks": what main does after the n-th
\* check has returned.
NextCheck(n) == IF n < Len(cluster_checks) THEN cluster_checks[n + 1] ELSE "return"

\* main is started: the configuration is loaded and the loop begins.
MainStart ==
    /\ main.pc \in {"not started", "exited"}
    /\ run = NoRun
    /\ main' = [NotStarted EXCEPT !.pc = cluster_checks[1], !.history_left = history_file]
    /\ UNCHANGED <<history_file, run, invocations, resolver, humanize, series>>

\* main is started and ends in load_config, get_email_settings or
\* get_rest_credentials: no configuration file, invalid JSON, or no
\* email_settings or cluster_settings in it.
MainConfigError ==
    /\ main.pc \in {"not started", "exited"}
    /\ run = NoRun
    /\ main' = [NotStarted EXCEPT !.pc = "exited", !.exit_code = 1]
    /\ UNCHANGED <<history_file, run, invocations, resolver, humanize, series>>

MainClusterCapacityCheck ==
    /\ main.pc = "capacity"
    /\ run = NoRun
    /\ \E config \in MainCapacityConfigs, fs_stats \in FsStats :
          Run("capacity", config, fs_stats, FALSE)
    /\ UNCHANGED <<main, invocations, resolver, humanize, series>>

MainQuotaCapacityCheck ==
    /\ main.pc = "quota"
    /\ run = NoRun
    /\ \E config \in MainQuotaConfigs, listing \in QuotaListings :
          Run("quota", config, listing, FALSE)
    /\ UNCHANGED <<main, invocations, resolver, humanize, series>>

MainReplicationStatusCheck ==
    /\ main.pc = "replication"
    /\ run = NoRun
    /\ \E config \in MainReplicationConfigs,
          src_relationships \in RelationshipLists("source"),
          tgt_relationships \in RelationshipLists("target") :
          Run("replication", config,
              [src |-> src_relationships, tgt |-> tgt_relationships], FALSE)
    /\ UNCHANGED <<main, invocations, resolver, humanize, series>>

\* The check returns and the loop goes on, main returning 0 after the last
\* check; or the check has raised, nothing catches the exception and the
\* interpreter exits with status 1.
MainCheckReturns ==
    /\ main.pc \in {"capacity", "quota", "replication"}
    /\ run.family = main.pc
    /\ LET checks == Append(main.checks, [family |-> run.family, error |-> run.error])
           next == IF run.error = "none" THEN NextCheck(Len(checks)) ELSE "raise"
       IN  main' = [pc |-> IF next \in {"return", "raise"} THEN "exited" ELSE next,
                    checks |-> checks,
                    dispatched |-> main.dispatched
                                     \/ run.error = "mail" \/ run.notify # <<>>,
                    written |-> main.written \/ run.saves > 0,
                    history_left |-> history_file,
                    exit_code |-> IF next = "raise" THEN 1 ELSE 0]
    /\ run' = NoRun
    /\ UNCHANGED <<history_file, invocations, resolver, humanize, series>>

MainNext ==
    \/ MainStart
    \/ MainConfigError
    \/ MainClusterCapacityCheck
    \/ MainQuotaCapacityCheck
    \/ MainReplicationStatusCheck
    \/ MainCheckReturns
    \/ HistoryFileRemoved
    \/ HistoryFileDamaged

MainSpec == Init /\ [][MainNext]_vars

---------------------------------------------------------------------------
(* Two invocations on one history file                                     *)

\* The script takes no lock on the history file, so a second invocation
\* (a second cron entry, a run by hand) may load the history while a check of
\* the first is between its load_history and its save_history.  Each of the
\* two invocations runs one check: it loads the history, and later evaluates,
\* saves and sends on what it loaded.
OverlapCapacityConfig == [capacity_rules |-> <<Rule("warn", <<90, 95>>)>>]

OverlapQuotaConfig ==
    [quota_rules |-> <<>>, default_quota_rules |-> [rules |-> DefaultQuotaRules]]

OverlapQuotaListings == {<<>>, <<QuotaRecord("/eng", 91, 100)>>}

OverlapReplicationConfig == [replication_rules |-> <<ReplRule("warn")>>]

\* Invocation p calls load_history at the start of a check.
OverlapLoad(p, family, config, metrics) ==
    LET q == 3 - p
        overlapped == invocations[q].pc = "loaded"
    IN  /\ invocations[p].pc = "idle"
        /\ invocations' =
              [i \in {1, 2} |->
                  IF i = p
                  THEN [pc |-> "loaded", family |-> family, config |-> config,
                        metrics |-> metrics, file |-> history_file,
                        overlapped |-> overlapped]
                  ELSE IF overlapped
                       THEN [invocations[q] EXCEPT !.overlapped = TRUE]
                       ELSE invocations[q]]
        /\ UNCHANGED <<history_file, run, main, resolver, humanize, series>>

OverlapLoadCapacity ==
    \E p \in {1, 2}, fs_stats \in FsStats :
        OverlapLoad(p, "capacity", OverlapCapacityConfig, fs_stats)

OverlapLoadQuota ==
    \E p \in {1, 2}, listing \in OverlapQuotaListings :
        OverlapLoad(p, "quota", OverlapQuotaConfig, listing)

OverlapLoadReplication ==
    \E p \in {1, 2}, src_relationships \in RelationshipLists("source"),
       tgt_relationships \in RelationshipLists("target") :
        OverlapLoad(p, "replication", OverlapReplicationConfig,
                    [src |-> src_relationships, tgt |-> tgt_relationships])

\* Invocation p does the rest of its check on the history it has loaded:
\* what it saves replaces whatever the file holds by then.
OverlapFinish ==
    \E p \in {1, 2} :
        LET inv == invocations[p]
        IN  /\ inv.pc = "loaded"
            /\ \E failAt \in 0..Len(Check(inv.family, inv.file, inv.config,
                                           inv.metrics, 0).run.notify) :
                  \E r \in {Check(inv.family, inv.file, inv.config, inv.metrics, failAt)} :
                  LET after == IF r.run.saves > 0 THEN r.file ELSE history_file
                  IN  /\ history_file' = after
                      /\ invocations' =
                            [invocations EXCEPT ![p] =
                                [pc |-> "done", family |-> inv.family,
                                 error |-> r.run.error,
                                 mailed |-> IF failAt = 0 THEN r.run.notify
                                            ELSE SubSeq(r.run.notify, 1, r.run.failAt),
                                 saves |-> r.run.saves,
                                 before |-> history_file,
                                 after |-> after,
                                 overlapped |-> inv.overlapped]]
            /\ UNCHANGED <<run, main, resolver, humanize, series>>

\* Both invocations have ended; the next two start.
OverlapEnd ==
    /\ \A p \in {1, 2} : invocations[p].pc = "done"
    /\ invocations' = NoInvocations
    /\ UNCHANGED <<history_file, run, main, resolver, humanize, series>>

OverlapNext ==
    \/ OverlapLoadCapacity
    \/ OverlapLoadQuota
    \/ OverlapLoadReplication
    \/ OverlapFinish
    \/ OverlapEnd

OverlapSpec == Init /\ [][OverlapNext]_vars

---------------------------------------------------------------------------
(* A call of process_quotas_and_rules                                      *)

\* A quota as get_current_quotas returns it.
ResolverQuota(p) == [path |-> p, capacity_usage |-> 91, limit |-> 100, id |-> p]

\* The quotas of the call: any of three paths.
ResolverQuotas ==
    {SelectSeq(<<"/eng", "/ops", "/tmp">>, LAMBDA p : p \in present) :
        present \in SUBSET {"/eng", "/ops", "/tmp"}}

\* Entries of config['quota_rules']: rules only, or rules and a field that a
\* quota has as well.
ResolverEntries ==
    {[rules |-> <<Rule("crit", <<95>>)>>],
     [rules |-> <<Rule("warn", <<90, 95>>)>>, limit |-> 50]}

\* config['quota_rules']: entries for none, one or two of the paths, or for
\* a path that has no quota.
ResolverQuotaRules ==
    {<<>>}
        \cup {[p \in {path} |-> e] : path \in {"/eng", "/gone"}, e \in ResolverEntries}
        \cup {[p \in {"/eng", "/ops"} |-> e] : e \in ResolverEntries}

\* config['default_quota_rules']: rules only, or rules and a field no entry
\* and no quota has.
ResolverDefaults ==
    {[rules |-> DefaultQuotaRules],
     [rules |-> DefaultQuotaRules, include_capacity |-> TRUE]}

ResolverConfigs ==
    {[quota_rules |-> q, default_quota_rules |-> d] :
        q \in ResolverQuotaRules, d \in ResolverDefaults}

ResolverInit ==
    /\ history_file = NoFile
    /\ run = NoRun
    /\ main = NotStarted
    /\ invocations = NoInvocations
    /\ humanize = NoCall
    /\ series = NoSeries
    /\ \E paths \in ResolverQuotas, config \in ResolverConfigs :
          resolver = [pc |-> "call",
                      quotas |-> [i \in DOMAIN paths |-> ResolverQuota(paths[i])],
                      config |-> config]

\* processed_quotas = process_quotas_and_rules(quotas, config)
ResolverCall ==
    /\ resolver.pc = "call"
    /\ resolver' =
          [pc |-> "returned", quotas |-> resolver.quotas, config |-> resolver.config,
           processed_quotas |->
               process_quotas_and_rules(resolver.quotas, resolver.config).processed_quotas]
    /\ UNCHANGED <<history_file, run, main, invocations, humanize, series>>

ResolverNext == ResolverCall

ResolverSpec == ResolverInit /\ [][ResolverNext]_vars

---------------------------------------------------------------------------
(* A call of humanize_bytes                                                *)

\* A byte count is written in base 1000: the sequence of its groups of three
\* decimal digits, the most significant first (1,234,567 is <<1, 234, 567>>),
\* without a leading 0 group.  While humanize_bytes runs, num is
\* [int, frac]: the groups before and after the decimal point.

\* The units the for loop goes through.
Units == <<"", "K", "M", "G", "T", "P", "E", "Z">>

\* humanize_bytes is called with int(...) of a byte count.
AsNumber(groups) == [int |-> groups, frac |-> <<>>]

\* abs(num) < 1000.0
Below1000(num) == Len(num.int) = 1

\* num /= 1000.0
DivideBy1000(num) ==
    [int |-> IF Len(num.int) = 1 THEN <<0>> ELSE SubSeq(num.int, 1, Len(num.int) - 1),
     frac |-> <<num.int[Len(num.int)]>> \o num.frac]

\* The integer after `groups`.
RECURSIVE Successor(_)
Successor(groups) ==
    IF groups = <<>> THEN <<1>>
    ELSE LET front == SubSeq(groups, 1, Len(groups) - 1)
             last == groups[Len(groups)]
         IN  IF last = 999 THEN Successor(front) \o <<0>>
             ELSE front \o <<last + 1>>

\* '%3.1f' % num: num rounded to one decimal, as [int, tenth].  The digits
\* after the first decide; when they are exactly a half, the double that
\* holds num lies on either side of the tie or on it, and either neighbour
\* may be printed.
Format1f(num) ==
    LET first == IF num.frac = <<>> THEN 0 ELSE num.frac[1]
        tenth == first \div 100
        rest == first % 100
        more == \E i \in 2..Len(num.frac) : num.frac[i] # 0
        down == [int |-> num.int, tenth |-> tenth]
        up == IF tenth = 9 THEN [int |-> Successor(num.int), tenth |-> 0]
              ELSE [int |-> num.int, tenth |-> tenth + 1]
    IN  IF rest < 50 THEN {down}
        ELSE IF rest > 50 \/ more THEN {up}
        ELSE {down, up}

\* The for loop of humanize_bytes from its n-th unit on, and the return
\* after it.
RECURSIVE HumanizeLoop(_, _, _)
HumanizeLoop(num, suffix, n) ==
    IF n > Len(Units)
    THEN {[number |-> f, unit |-> "Y", suffix |-> suffix] : f \in Format1f(num)}
    ELSE IF Below1000(num)
    THEN {[number |-> f, unit |-> Units[n], suffix |-> suffix] : f \in Format1f(num)}
    ELSE HumanizeLoop(DivideBy1000(num), suffix, n + 1)

\* humanize_bytes(num, suffix): the strings it may return, each as
\* [number, unit, suffix].
humanize_bytes(num, suffix) == HumanizeLoop(AsNumber(num), suffix, 1)

\* The byte counts of the calls: up to ten groups, of which the first three
\* vary (1,200,000 and 1,234,567 are among them).
MaxGroups == 10

ByteCounts ==
    {<<a>> : a \in {0, 1, 12, 999}}
        \cup {<<a, b>> : a \in {1, 12, 999}, b \in {0, 200, 234, 250, 949, 950, 999}}
        \cup {<<a, b, c>> \o [i \in 1..k |-> 0] :
                a \in {1, 12, 999}, b \in {0, 200, 234, 250, 949, 950, 999},
                c \in {0, 567, 999}, k \in 0..(MaxGroups - 3)}

Suffixes == {"B", " bytes"}

HumanizeInit ==
    /\ history_file = NoFile
    /\ run = NoRun
    /\ main = NotStarted
    /\ invocations = NoInvocations
    /\ resolver = NoCall
    /\ series = NoSeries
    /\ \E num \in ByteCounts, suffix \in Suffixes :
          humanize = [pc |-> "call", num |-> num, suffix |-> suffix]

\* humanize_bytes(num, suffix) returns.
HumanizeCall ==
    /\ humanize.pc = "call"
    /\ \E result \in humanize_bytes(humanize.num, humanize.suffix) :
          humanize' = [pc |-> "returned", num |-> humanize.num,
                       suffix |-> humanize.suffix, result |-> result]
    /\ UNCHANGED <<history_file, run, main, invocations, resolver, series>>

HumanizeNext == HumanizeCall

HumanizeSpec == HumanizeInit /\ [][HumanizeNext]_vars

---------------------------------------------------------------------------
(* Runs that follow one another                                            *)

\* The script is started again and again (by cron, or by hand) with one
\* configuration file and one history file; every run is a new process that
\* finds the file the run before it left, whether that run returned or died
\* on an exception of the mailer.  The metrics may change from run to run.

\* Runs in a series.
MaxRuns == 3

\* The configurations of a series.
SeriesCapacityConfigs ==
    {[capacity_rules |-> <<Rule("warn", <<90, 95>>), Rule("crit", <<95>>)>>],
     [capacity_rules |-> <<Rule("warn", <<95, 90>>)>>]}

SeriesQuotaConfigs ==
    {[quota_rules |-> [p \in {"/eng"} |-> [rules |-> r]],
      default_quota_rules |-> [rules |-> DefaultQuotaRules]] :
        r \in {<<Rule("warn", <<90, 95>>), Rule("crit", <<95>>)>>,
               <<Rule("warn", <<95, 90>>)>>}}

SeriesReplicationConfigs ==
    {[replication_rules |-> <<ReplRule("warn"), ReplRule("crit")>>]}

\* The quota listings of a series: "/eng" at any usage, "/ops" there or not.
SeriesQuotaListings ==
    {SelectSeq(<<e, o>>, LAMBDA q : q.capacity_usage >= 0) :
        e \in {QuotaRecord("/eng", u, 100) : u \in UsedBytes},
        o \in {QuotaRecord("/ops", 91, 100), QuotaRecord("/ops", -1, 100)}}

\* One more run of the check of `family`: it loads the history file the
\* last run left, and any of its e-mails may be the one that raises.
SeriesRun(family, config, metrics) ==
    /\ series.family = family => config = series.config
    /\ \E failAt \in 0..Len(Check(family, history_file, config, metrics, 0).run.notify) :
          \E r \in {Check(family, history_file, config, metrics, failAt)} :
              /\ history_file' = r.file
              /\ series' = [family |-> family, config |-> config,
                            runs |-> Append(series.runs, r.run)]

SeriesClusterCapacityCheck ==
    /\ Len(series.runs) < MaxRuns
    /\ series.family \in {"none", "capacity"}
    /\ \E config \in SeriesCapacityConfigs, fs_stats \in FsStats :
          SeriesRun("capacity", config, fs_stats)
    /\ UNCHANGED <<run, main, invocations, resolver, humanize>>

SeriesQuotaCapacityCheck ==
    /\ Len(series.runs) < MaxRuns
    /\ series.family \in {"none", "quota"}
    /\ \E config \in SeriesQuotaConfigs, listing \in SeriesQuotaListings :
          SeriesRun("quota", config, listing)
    /\ UNCHANGED <<run, main, invocations, resolver, humanize>>

SeriesReplicationStatusCheck ==
    /\ Len(series.runs) < MaxRuns
    /\ series.family \in {"none", "replication"}
    /\ \E config \in SeriesReplicationConfigs,
          src_relationships \in RelationshipLists("source"),
          tgt_relationships \in RelationshipLists("target") :
          SeriesRun("replication", config,
                    [src |-> src_relationships, tgt |-> tgt_relationships])
    /\ UNCHANGED <<run, main, invocations, resolver, humanize>>

SeriesNext ==
    \/ SeriesClusterCapacityCheck
    \/ SeriesQuotaCapacityCheck
    \/ SeriesReplicationStatusCheck

SeriesSpec == Init /\ [][SeriesNext]_vars

---------------------------------------------------------------------------
(* Vocabulary of the properties                                            *)

Range(seq) == {seq[i] : i \in DOMAIN seq}

Max(S) == CHOOSE x \in S : \A y \in S : y <= x

\* The (target, rule) pairs the last check looked at.
Evaluated == Range(run.evaluated)

\* The thresholds of an evaluated rule that its usage percentage exceeds.
ExceededSet(e) == {t \in Range(e.thresholds) : e.pct_used > t * 100}

\* The code's own verdict: the rule has a current alert.
Alerting(e) ==
    IF run.family = "quota" THEN e.alert_threshold > 0
    ELSE e.alert_threshold # None /\ e.alert_threshold # 0

\* The history `h` has an entry for (target, rule) in the family's namespace.
HasEntry(h, family, target, rule) ==
    CASE family = "quota" -> target \in DOMAIN h.quotas /\ rule \in DOMAIN h.quotas[target]
      [] family = "capacity" -> rule \in DOMAIN h.capacity
      [] family = "replication" -> rule \in DOMAIN h.replication

\* The alert_threshold that entry records.
EntryThreshold(h, family, target, rule) ==
    IF family = "quota" THEN h.quotas[target][rule].alert_threshold
    ELSE h.capacity[rule].alert_threshold

\* The notifications of the last check for (target, rule).
NotificationsFor(target, rule) ==
    {i \in DOMAIN run.notify : run.notify[i].target = target /\ run.notify[i].rule = rule}

\* The notifications handed to the mailer, the one that raised included.
Mailed == IF run.failAt = 0 THEN run.notify ELSE SubSeq(run.notify, 1, run.failAt)

\* The history on disk after the last check.
Persisted == load_history(history_file).data

ThresholdFamily == run.family \in {"quota", "capacity"}

---------------------------------------------------------------------------
(* C1 *)

\* C1: a quota or capacity notification is there only if the loaded history
\* had no entry for its (target, rule) or the current alert_threshold is
\* strictly greater than the recorded one; a replication notification only if
\* the aggregated error set is non-empty and the loaded history had no entry
\* for the rule.
C1_NotifyOnlyWhenNewOrHigher ==
    \A i \in DOMAIN run.notify :
        LET n == run.notify[i]
        IN  IF run.family = "replication"
            THEN /\ \E r \in Range(run.metrics.src) \cup Range(run.metrics.tgt) :
                        r.error_from_last_job
                 /\ ~HasEntry(run.loaded, "replication", n.target, n.rule)
            ELSE \E e \in Evaluated :
                    /\ e.target = n.target /\ e.rule = n.rule
                    /\ \/ ~HasEntry(run.loaded, run.family, n.target, n.rule)
                       \/ e.alert_threshold
                            > EntryThreshold(run.loaded, run.family, n.target, n.rule)

\* A quota notification for a rule whose recorded threshold was lower.
C1_Witness ==
    /\ run.family = "quota"
    /\ \E i \in DOMAIN run.notify :
          /\ HasEntry(run.loaded, "quota", run.notify[i].target, run.notify[i].rule)
          /\ run.notify[i].alert_threshold
                > EntryThreshold(run.loaded, "quota", run.notify[i].target, run.notify[i].rule)

---------------------------------------------------------------------------
(* C2 *)

\* C2: for every usage percentage and threshold list, the alert_threshold the
\* quota and the capacity evaluator compute is the greatest exceeded
\* threshold, and the rule has no alert exactly when none is exceeded.
C2_AlertThresholdIsMaxExceeded ==
    ThresholdFamily =>
        \A e \in Evaluated :
            /\ Alerting(e) <=> ExceededSet(e) # {}
            /\ ExceededSet(e) # {} => e.alert_threshold = Max(ExceededSet(e))

---------------------------------------------------------------------------
(* C3 *)

\* C3: a check that follows a completed check of the same family, with the
\* same metrics, the same configuration and the history that check left,
\* sends no notification and leaves a history equal to the one it loaded.
C3_Idempotent ==
    run.repeat => run.notify = <<>> /\ Persisted = run.loaded

\* A repeated quota check that found alerts already recorded.
C3_Witness ==
    /\ run.repeat
    /\ run.family = "quota"
    /\ \E e \in Evaluated : Alerting(e) /\ HasEntry(run.loaded, "quota", e.target, e.rule)

---------------------------------------------------------------------------
(* C4 *)

\* C4: when the loaded history records threshold T for a quota or capacity
\* (target, rule) and the usage exceeds a configured threshold above T, the
\* check has exactly one notification for it, for the highest exceeded
\* threshold, and the history then records that threshold.
C4_Escalation ==
    ThresholdFamily =>
        \A e \in Evaluated :
            ( /\ HasEntry(run.loaded, run.family, e.target, e.rule)
              /\ \E t \in ExceededSet(e) :
                    t > EntryThreshold(run.loaded, run.family, e.target, e.rule) )
            => /\ Cardinality(NotificationsFor(e.target, e.rule)) = 1
               /\ \A i \in NotificationsFor(e.target, e.rule) :
                     run.notify[i].alert_threshold = Max(ExceededSet(e))
               /\ HasEntry(run.computed, run.family, e.target, e.rule)
               /\ EntryThreshold(run.computed, run.family, e.target, e.rule)
                     = Max(ExceededSet(e))

---------------------------------------------------------------------------
(* C5 *)

\* C5: a (target, rule) with a history entry that exceeds none of its
\* thresholds loses the entry without a notification; while it has no entry
\* and exceeds none it gets no notification and no entry; once it has no
\* entry and exceeds a threshold again, the check records an entry and has
\* exactly one notification for it.
C5_Recovery ==
    ThresholdFamily =>
        \A e \in Evaluated :
            LET had == HasEntry(run.loaded, run.family, e.target, e.rule)
                has == HasEntry(run.computed, run.family, e.target, e.rule)
                mails == Cardinality(NotificationsFor(e.target, e.rule))
            IN  /\ ExceededSet(e) = {} => ~has /\ mails = 0
                /\ ~had /\ ExceededSet(e) # {} => has /\ mails = 1

---------------------------------------------------------------------------
(* C6 *)

\* The alert of (target, rule) is active: the rule is configured for a target
\* of the snapshot and exceeds a threshold (replication: the rule is
\* configured and a relationship reports an error).
ActiveAlert(target, rule) ==
    IF run.family = "replication"
    THEN /\ rule \in Names(run.config.replication_rules)
         /\ \E r \in Range(run.metrics.src) \cup Range(run.metrics.tgt) :
               r.error_from_last_job
    ELSE \E e \in Evaluated : e.target = target /\ e.rule = rule /\ ExceededSet(e) # {}

\* C6: after a check that ran to its end, the family's namespace of the
\* history has no (target, rule) entry whose alert is not active.
C6_NoStaleEntry ==
    run.family # "none" /\ run.error = "none" =>
        CASE run.family = "quota" ->
                \A p \in DOMAIN Persisted.quotas :
                    \A r \in DOMAIN Persisted.quotas[p] : ActiveAlert(p, r)
          [] run.family = "capacity" ->
                \A r \in DOMAIN Persisted.capacity : ActiveAlert("cluster", r)
          [] run.family = "replication" ->
                \A r \in DOMAIN Persisted.replication : ActiveAlert("replication", r)

---------------------------------------------------------------------------
(* C7 *)

\* The suppressed-repeat case: an evaluated rule with a current alert whose
\* loaded entry records a threshold greater than or equal to the current one.
SuppressedRepeat(e) ==
    /\ Alerting(e)
    /\ HasEntry(run.loaded, run.family, e.target, e.rule)
    /\ EntryThreshold(run.loaded, run.family, e.target, e.rule) >= e.alert_threshold

\* C7 as stated: in the quota and in the capacity family a suppressed repeat
\* has no notification and the history entry afterwards records the current
\* alert_threshold.
C7_SuppressedRepeatRefreshes ==
    ThresholdFamily =>
        \A e \in Evaluated :
            SuppressedRepeat(e) =>
                /\ NotificationsFor(e.target, e.rule) = {}
                /\ HasEntry(run.computed, run.family, e.target, e.rule)
                /\ EntryThreshold(run.computed, run.family, e.target, e.rule)
                      = e.alert_threshold

\* C7 as amended: a suppressed repeat has no notification in either family;
\* the quota check puts the current alert_threshold into the history it
\* computes, which is the history on disk when no e-mail of the check raised
\* (the disk keeps the loaded history otherwise); the capacity check leaves
\* the entry with the threshold it had.
C7_SuppressedRepeat ==
    ThresholdFamily =>
        \A e \in Evaluated :
            SuppressedRepeat(e) =>
                /\ NotificationsFor(e.target, e.rule) = {}
                /\ HasEntry(run.computed, run.family, e.target, e.rule)
                /\ IF run.family = "quota"
                   THEN /\ EntryThreshold(run.computed, "quota", e.target, e.rule)
                              = e.alert_threshold
                        /\ Persisted = IF run.failAt = 0 THEN run.computed ELSE run.loaded
                   ELSE /\ Persisted = run.computed
                        /\ EntryThreshold(Persisted, "capacity", e.target, e.rule)
                              = EntryThreshold(run.loaded, "capacity", e.target, e.rule)

\* A capacity check that still exceeds 90 while the history records 95, and
\* leaves the 95 in the file.
C7_Witness ==
    /\ run.family = "capacity"
    /\ \E e \in Evaluated :
          /\ SuppressedRepeat(e)
          /\ EntryThreshold(run.loaded, "capacity", e.target, e.rule) > e.alert_threshold
          /\ EntryThreshold(Persisted, "capacity", e.target, e.rule) > e.alert_threshold

---------------------------------------------------------------------------
(* C8 *)

\* The relationships, of either side, that report an error from their last job.
Errored ==
    {r \in Range(run.metrics.src) \cup Range(run.metrics.tgt) : r.error_from_last_job}

\* The e-mails handed to the mailer for a rule.
MailedFor(rule) == {i \in DOMAIN Mailed : Mailed[i].rule = rule}

\* C8: for every rule the replication check processes: with a non-empty
\* aggregated error set and no entry loaded, the entry is created and exactly
\* one notification is sent for the rule, carrying every errored relationship
\* of both sides; with an empty error set the entry is gone and no
\* notification is sent.
C8_ReplicationTwoState ==
    run.family = "replication" =>
        \A e \in Evaluated :
            /\ ( Errored # {} /\ ~HasEntry(run.loaded, "replication", "replication", e.rule) )
               => /\ HasEntry(Persisted, "replication", "replication", e.rule)
                  /\ Cardinality(MailedFor(e.rule)) = 1
                  /\ \A i \in MailedFor(e.rule) :
                        /\ Range(Mailed[i].relationships) = Errored
                        /\ Len(Mailed[i].relationships) = Cardinality(Errored)
            /\ Errored = {}
               => /\ ~HasEntry(Persisted, "replication", "replication", e.rule)
                  /\ MailedFor(e.rule) = {}

\* One notification that bundles an errored source-initiated and an errored
\* target-initiated relationship, and a rule whose entry an empty error set
\* removed.
C8_Witness ==
    /\ run.family = "replication"
    /\ \E e \in Evaluated :
          /\ ~HasEntry(run.loaded, "replication", "replication", e.rule)
          /\ Cardinality(Errored) >= 2
          /\ Cardinality(MailedFor(e.rule)) = 1
          /\ HasEntry(Persisted, "replication", "replication", e.rule)

---------------------------------------------------------------------------
(* C9 *)

\* C9: a quota or capacity rule with a threshold of 0 has an active alert
\* whenever the usage percentage is above 0 (so also whenever another of its
\* thresholds is exceeded); the alert is for 0 when no higher threshold is
\* exceeded, it is recorded in the history, and notified when the loaded
\* history had no entry.
C9_ZeroThresholdAlerts ==
    ThresholdFamily =>
        \A e \in Evaluated :
            ( 0 \in Range(e.thresholds) /\ e.pct_used > 0 ) =>
                /\ Alerting(e)
                /\ ExceededSet(e) = {0} => e.alert_threshold = 0
                /\ HasEntry(run.computed, run.family, e.target, e.rule)
                /\ ~HasEntry(run.loaded, run.family, e.target, e.rule)
                      => NotificationsFor(e.target, e.rule) # {}

---------------------------------------------------------------------------
(* C10 *)

\* The namespace of a family in a history.
Namespace(h, family) ==
    CASE family = "quota" -> h.quotas
      [] family = "capacity" -> h.capacity
      [] family = "replication" -> h.replication

\* C10: when the mailer raises during a check, the history file afterwards
\* still holds the family's entries as the check computed them.
C10_HistorySavedDespiteMailFailure ==
    run.failAt > 0 => Namespace(Persisted, run.family) = Namespace(run.computed, run.family)

---------------------------------------------------------------------------
(* C11 *)

\* The last check main has run.
LastCheck == main.checks[Len(main.checks)]

\* The notifications the last check computes when no e-mail raises.
NotifyWorthy == Check(run.family, run.file, run.config, run.metrics, 0).run.notify

\* C11: when the mailer raises on one alert, every other notify-worthy alert
\* of the invocation is still handed to the mailer: the remaining ones of the
\* same check, and those of the later checks, which still run.
C11_DispatchFailureIsolated ==
    /\ run.error = "mail" => Len(Mailed) = Len(NotifyWorthy)
    /\ ( main.pc = "exited" /\ \E i \in DOMAIN main.checks : main.checks[i].error = "mail" )
          => Len(main.checks) = Len(cluster_checks)

---------------------------------------------------------------------------
(* C12 *)

\* C12: an invocation that ends on a missing required key of the
\* configuration exits with a non-zero status, has dispatched no notification
\* and has not written the history file.
C12_ConfigErrorBeforeAnyCheck ==
    ( main.pc = "exited" /\ main.checks # <<>> /\ LastCheck.error = "KeyError" )
        => /\ main.exit_code # 0
           /\ ~main.dispatched
           /\ ~main.written

---------------------------------------------------------------------------
(* C13 *)

\* The quotas of the last quota check whose limit is not 0, each with the
\* rules get_alerting_quotas evaluates for it.
SiblingsEvaluated ==
    LET quotas == process_quotas_and_rules(run.metrics, run.config).processed_quotas
    IN  UNION {Range(QuotaEvaluated(quotas[i].path, quotas[i].quota)) :
                  i \in {j \in DOMAIN quotas : quotas[j].quota.limit # 0}}

\* C13: when a quota of the listing has a limit of 0, the other quotas are
\* still evaluated, notified and recorded in the history, and the checks
\* after the quota check still run.
C13_EvaluationErrorContained ==
    /\ run.error = "ZeroDivisionError" =>
          \A e \in SiblingsEvaluated :
              ( QuotaRuleAlerts(e.alert_threshold)
                /\ ~HasEntry(run.loaded, "quota", e.target, e.rule) )
              => /\ NotificationsFor(e.target, e.rule) # {}
                 /\ HasEntry(Persisted, "quota", e.target, e.rule)
    /\ ( main.pc = "exited"
         /\ \E i \in DOMAIN main.checks : main.checks[i].error = "ZeroDivisionError" )
          => Len(main.checks) = Len(cluster_checks)

---------------------------------------------------------------------------
(* C14 *)

\* C14: a check that finds a history file whose content is not valid JSON
\* ends in SystemExit, has no notification and leaves the file as it is; the
\* invocation ends there with a non-zero exit status, no notification
\* dispatched and no history written.
C14_InvalidHistoryExits ==
    /\ ( run.family # "none" /\ run.file.exists /\ ~run.file.json )
          => /\ run.error = "SystemExit"
             /\ run.notify = <<>>
             /\ run.saves = 0
             /\ history_file = run.file
    /\ ( main.pc = "exited" /\ main.checks # <<>> /\ main.checks[1].error = "SystemExit" )
          => /\ Len(main.checks) = 1
             /\ main.exit_code # 0
             /\ ~main.dispatched
             /\ ~main.written

\* An invocation that found the history file damaged and has exited on its
\* first check, the file still as it was.
C14_Witness ==
    /\ main.pc = "exited"
    /\ main.checks = <<[family |-> "capacity", error |-> "SystemExit"]>>
    /\ main.exit_code = 1
    /\ history_file = InvalidJsonFile

---------------------------------------------------------------------------
(* C15 *)

\* C15: a check that finds no history file does not end in load_history: it
\* works on exactly the three empty namespaces, and when it runs to its end
\* it has handed a notification to the mailer for every (target, rule) with a
\* current alert (replication: for every rule, when a relationship reports an
\* error).
C15_MissingHistoryIsBlank ==
    ( run.family # "none" /\ ~run.file.exists ) =>
        /\ run.error # "SystemExit"
        /\ run.loaded = EmptyHistory
        /\ DOMAIN run.loaded = {"quotas", "capacity", "replication"}
        /\ run.error = "none" =>
              \A e \in Evaluated :
                  IF run.family = "replication"
                  THEN Errored # {} => Cardinality(MailedFor(e.rule)) = 1
                  ELSE Alerting(e) =>
                          \E i \in DOMAIN Mailed :
                              /\ Mailed[i].target = e.target
                              /\ Mailed[i].rule = e.rule
                              /\ Mailed[i].alert_threshold = e.alert_threshold

\* A first quota check, without a history file, that notified for two quotas
\* and created the file.
C15_Witness ==
    /\ run.family = "quota"
    /\ ~run.file.exists
    /\ run.error = "none"
    /\ Len(run.notify) >= 2
    /\ history_file.exists

---------------------------------------------------------------------------
(* C16 *)

\* C16: after a check of a family, whether it sent notifications, none, or
\* ended in its mailer, the history on disk has the other two namespaces as
\* the check loaded them.
C16_OtherNamespacesUnchanged ==
    run.family # "none" =>
        \A other \in {"quota", "capacity", "replication"} \ {run.family} :
            Namespace(Persisted, other) = Namespace(run.loaded, other)

\* A quota check that rewrote its namespace while the other two held entries,
\* and one that ended in the mailer.
C16_Witness ==
    /\ run.family = "quota"
    /\ run.saves > 0
    /\ run.notify # <<>>
    /\ run.loaded.capacity # EmptyDict
    /\ run.loaded.replication # EmptyDict
    /\ Persisted.quotas # run.loaded.quotas
    /\ Persisted.capacity = run.loaded.capacity

---------------------------------------------------------------------------
(* C19 *)

\* C19: load_history after save_history yields the saved history, for the
\* history a check has saved and for the one it had loaded; and the file a
\* check has saved into holds what saving into no file gives: nothing of its
\* previous content.
C19_SaveLoadRoundTrip ==
    /\ run.saves > 0 =>
          /\ load_history(history_file) = [exit |-> FALSE, data |-> run.computed]
          /\ history_file = save_history(NoFile, run.computed)
    /\ run.family # "none" =>
          load_history(save_history(history_file, run.loaded))
              = [exit |-> FALSE, data |-> run.loaded]

\* A check that saved over a file whose history had an entry the saved
\* history no longer has, while an entry of another namespace stays.
C19_Witness ==
    /\ run.family = "quota"
    /\ run.saves > 0
    /\ run.file.exists
    /\ run.loaded.quotas # EmptyDict
    /\ run.computed.quotas = EmptyDict
    /\ run.computed.capacity # EmptyDict
    /\ Persisted = run.computed

---------------------------------------------------------------------------
(* C20 *)

\* The families of the checks main has run, in order.
ChecksRun == [i \in DOMAIN main.checks |-> main.checks[i].family]

\* C20: main runs the checks one after the other in the order capacity,
\* quota, replication, each on the history file as the check before it left
\* it; an invocation none of whose checks ended in an error has run each of
\* the three exactly once and exits with status 0, and no other invocation
\* exits with status 0.
C20_ThreeChecksThenExitZero ==
    /\ ChecksRun = SubSeq(cluster_checks, 1, Len(main.checks))
    /\ ( run.family # "none" /\ main.pc # "not started" ) =>
          /\ run.family = cluster_checks[Len(main.checks) + 1]
          /\ run.file = main.history_left
    /\ main.pc = "exited" =>
          ( main.exit_code = 0
            <=> /\ ChecksRun = cluster_checks
                /\ \A i \in DOMAIN main.checks : main.checks[i].error = "none" )
    /\ ( main.pc = "exited" /\ main.checks # <<>>
         /\ \A i \in DOMAIN main.checks : main.checks[i].error = "none" )
          => main.exit_code = 0 /\ ChecksRun = cluster_checks

\* An invocation that ran the three checks, dispatched notifications, wrote
\* the history and exited with status 0.
C20_Witness ==
    /\ main.pc = "exited"
    /\ main.exit_code = 0
    /\ Len(main.checks) = 3
    /\ main.dispatched
    /\ main.written

---------------------------------------------------------------------------
(* C17 *)

\* Both invocations have sent a notification for the same crossing: the same
\* family, target, rule and threshold (replication: the same rule).
DuplicateNotification ==
    /\ invocations[1].family = invocations[2].family
    /\ \E i \in DOMAIN invocations[1].mailed, j \in DOMAIN invocations[2].mailed :
          invocations[1].mailed[i] = invocations[2].mailed[j]

\* The history invocation p wrote has discarded an update of the other one:
\* a namespace that the family of p does not own is no longer as the file
\* had it just before p wrote.
LostUpdate(p) ==
    /\ invocations[p].saves > 0
    /\ \E other \in {"quota", "capacity", "replication"} \ {invocations[p].family} :
          Namespace(load_history(invocations[p].after).data, other)
              # Namespace(load_history(invocations[p].before).data, other)

\* C17: two invocations that ran to their end one after the other (the second
\* loaded the history after the first had ended) have not both notified the
\* same crossing, and neither has discarded an update of the other; both
\* outcomes need invocations that overlap.
C17_SerializedInvocationsAreSafe ==
    ( /\ \A p \in {1, 2} : invocations[p].pc = "done" /\ invocations[p].error = "none"
      /\ \E p \in {1, 2} : ~invocations[p].overlapped )
    => /\ ~DuplicateNotification
       /\ \A p \in {1, 2} : ~LostUpdate(p)

\* Two quota checks that both loaded the history before either saved, and
\* both notified that "/eng" exceeds 90.
C17_Witness ==
    /\ \A p \in {1, 2} :
          /\ invocations[p].pc = "done"
          /\ invocations[p].error = "none"
          /\ invocations[p].overlapped
          /\ invocations[p].family = "quota"
    /\ DuplicateNotification

\* Two overlapping checks of different families, the second of which wrote
\* the history without the entry the first had saved.
C17_LostUpdateReached ==
    /\ \A p \in {1, 2} :
          /\ invocations[p].pc = "done"
          /\ invocations[p].error = "none"
          /\ invocations[p].overlapped
    /\ \E p \in {1, 2} : LostUpdate(p)

---------------------------------------------------------------------------
(* C18 *)

\* The quota of the call with the path p.
ResolverRaw(p) ==
    CHOOSE q \in Range(resolver.quotas) : q.path = p

\* C18: process_quotas_and_rules returns one entry per quota and no other;
\* the entry of a path that config['quota_rules'] has is the fields of that
\* entry and, for the others, the fields of the quota; the entry of any other
\* path is the fields of config['default_quota_rules'] and, for the others,
\* the fields of the quota; no entry has fields from both rule sets.
C18_OneRuleSetPerQuota ==
    resolver.pc = "returned" =>
        LET processed == resolver.processed_quotas
            defined_rules == resolver.config.quota_rules
            default == resolver.config.default_quota_rules
        IN  /\ Len(processed) = Len(resolver.quotas)
            /\ {processed[i].path : i \in DOMAIN processed}
                  = {resolver.quotas[i].path : i \in DOMAIN resolver.quotas}
            /\ \A i \in DOMAIN processed :
                  LET path == processed[i].path
                      quota == processed[i].quota
                      raw == ResolverRaw(path)
                      rules == IF path \in DOMAIN defined_rules
                               THEN defined_rules[path] ELSE default
                  IN  /\ DOMAIN quota = DOMAIN raw \cup DOMAIN rules
                      /\ \A k \in DOMAIN rules : quota[k] = rules[k]
                      /\ \A k \in DOMAIN raw \ DOMAIN rules : quota[k] = raw[k]

\* A call that returned a quota with the rules and the limit of its explicit
\* entry, and another quota with the default rules.
C18_Witness ==
    /\ resolver.pc = "returned"
    /\ \E i, j \in DOMAIN resolver.processed_quotas :
          /\ resolver.processed_quotas[i].path = "/eng"
          /\ resolver.processed_quotas[i].quota.limit = 50
          /\ "include_capacity" \notin DOMAIN resolver.processed_quotas[i].quota
          /\ resolver.processed_quotas[j].path = "/tmp"
          /\ resolver.processed_quotas[j].quota.rules = DefaultQuotaRules
          /\ "include_capacity" \in DOMAIN resolver.processed_quotas[j].quota

---------------------------------------------------------------------------
(* C21: humanize_bytes scales in base 1000                                 *)

\* The unit of a count of k groups: the k-th of the units, Y past the last.
UnitOf(num) == IF Len(num) <= Len(Units) THEN Units[Len(num)] ELSE "Y"

\* C21: for every non-negative byte count, humanize_bytes selects the first
\* unit among '', K, M, G, T, P, E, Z for which the value divided by 1000
\* again and again is below 1000 (Y for anything larger), prints that value
\* with one decimal, then the unit and the suffix, and the number it prints
\* is below 1000 for every unit except Y; 1,200,000 and 1,234,567 both give
\* "1.2MB".
C21_HumanizeBytesBase1000 ==
    humanize.pc = "returned" =>
        LET result == humanize.result
        IN  /\ result.unit = UnitOf(humanize.num)
            /\ result.suffix = humanize.suffix
            /\ result.number.tenth \in 0..9
            /\ result.unit # "Y" => Len(result.number.int) = 1
            /\ humanize.num \in {<<1, 200, 0>>, <<1, 234, 567>>} =>
                  /\ result.number = [int |-> <<1>>, tenth |-> 2]
                  /\ result.unit = "M"

---------------------------------------------------------------------------
(* C22: the quotas namespace is the current alerting set                   *)

\* The rules of the quota at `path` that alert in the last check.
AlertingRules(path) == {e \in Evaluated : e.target = path /\ Alerting(e)}

\* process_quotas_with_history has returned in the last check.
QuotaHistoryReturned == run.family = "quota" /\ run.error \in {"none", "mail"}

\* C22: after process_quotas_with_history returns, whatever the prior
\* history and the alerting quotas, the quotas namespace of the returned
\* history is exactly the current alerting set: the same quota paths, for
\* each path the same rule names, every recorded alert_threshold the one
\* computed in this run, and no path with an empty rule set.
C22_QuotasNamespaceIsAlertingSet ==
    QuotaHistoryReturned =>
        LET quotas == run.computed.quotas
        IN  /\ DOMAIN quotas = {e.target : e \in {x \in Evaluated : Alerting(x)}}
            /\ \A path \in DOMAIN quotas :
                  /\ DOMAIN quotas[path] = {e.rule : e \in AlertingRules(path)}
                  /\ DOMAIN quotas[path] # {}
                  /\ \A e \in AlertingRules(path) :
                        quotas[path][e.rule].alert_threshold = e.alert_threshold

\* A quota check whose loaded history had a quota that no longer alerts, a
\* rule that no longer alerts on a quota that still does, and a rule whose
\* recorded threshold is not the current one.
C22_Witness ==
    /\ QuotaHistoryReturned
    /\ \E path \in DOMAIN run.loaded.quotas : path \notin DOMAIN run.computed.quotas
    /\ \E path \in DOMAIN run.loaded.quotas \cap DOMAIN run.computed.quotas :
          /\ \E rule \in DOMAIN run.loaded.quotas[path] :
                rule \notin DOMAIN run.computed.quotas[path]
          /\ \E rule \in DOMAIN run.loaded.quotas[path] \cap DOMAIN run.computed.quotas[path] :
                run.loaded.quotas[path][rule].alert_threshold
                    # run.computed.quotas[path][rule].alert_threshold

---------------------------------------------------------------------------
(* Vocabulary of the properties of a series                                *)

\* The history on disk after the i-th run of the series: what the next run
\* loads, or what the file holds now.
HistoryLeft(i) ==
    IF i < Len(series.runs) THEN series.runs[i + 1].loaded
    ELSE load_history(history_file).data

\* The (target, rule) pairs the i-th run looked at.
EvaluatedIn(i) == Range(series.runs[i].evaluated)

\* The evaluator's verdict in a series: the rule has a current alert.
AlertingIn(e) ==
    IF series.family = "quota" THEN e.alert_threshold > 0
    ELSE e.alert_threshold # None /\ e.alert_threshold # 0

\* The notifications the i-th run handed to the mailer, the one that raised
\* included.
MailedIn(i) ==
    IF series.runs[i].failAt = 0 THEN series.runs[i].notify
    ELSE SubSeq(series.runs[i].notify, 1, series.runs[i].failAt)

\* Those of them that are for (target, rule).
MailedForIn(i, target, rule) ==
    {k \in DOMAIN MailedIn(i) :
        MailedIn(i)[k].target = target /\ MailedIn(i)[k].rule = rule}

\* The i-th run ran to its end.
Completed(i) == series.runs[i].error = "none"

---------------------------------------------------------------------------
(* C23: the recorded capacity threshold never decreases                    *)

\* The i-th run finds (target, rule) alerting below the threshold that the
\* history it loaded records for it.
FallsBelowRecorded(i, e) ==
    /\ AlertingIn(e)
    /\ HasEntry(series.runs[i].loaded, series.family, e.target, e.rule)
    /\ e.alert_threshold
          < EntryThreshold(series.runs[i].loaded, series.family, e.target, e.rule)

\* C23: in the capacity family the recorded alert_threshold of a rule never
\* decreases from run to run while its entry exists: when the usage falls
\* from above a higher threshold to above only a lower one the entry keeps
\* the higher value, and a later rise back above the higher threshold emits
\* no notification; in the quota family the same sequence of usages lowers
\* the recorded value and the rise is notified again.
C23_CapacityThresholdNeverDecreases ==
    /\ series.family = "capacity" =>
          \A i \in DOMAIN series.runs :
              LET loaded == series.runs[i].loaded.capacity
                  left == HistoryLeft(i).capacity
              IN  /\ \A rule \in DOMAIN loaded \cap DOMAIN left :
                        left[rule].alert_threshold >= loaded[rule].alert_threshold
                  /\ \A e \in EvaluatedIn(i) :
                        FallsBelowRecorded(i, e) =>
                            /\ e.rule \in DOMAIN left
                            /\ left[e.rule] = loaded[e.rule]
                            /\ i < Len(series.runs) =>
                                  \A rise \in EvaluatedIn(i + 1) :
                                      /\ rise.rule = e.rule
                                      /\ AlertingIn(rise)
                                      /\ rise.alert_threshold <= loaded[e.rule].alert_threshold
                                      => MailedForIn(i + 1, rise.target, rise.rule) = {}
    /\ series.family = "quota" =>
          \A i \in DOMAIN series.runs :
              Completed(i) =>
                  \A e \in EvaluatedIn(i) :
                      FallsBelowRecorded(i, e) =>
                          /\ HasEntry(HistoryLeft(i), "quota", e.target, e.rule)
                          /\ EntryThreshold(HistoryLeft(i), "quota", e.target, e.rule)
                                = e.alert_threshold
                          /\ i < Len(series.runs) /\ Completed(i + 1) =>
                                \A rise \in EvaluatedIn(i + 1) :
                                    /\ rise.target = e.target
                                    /\ rise.rule = e.rule
                                    /\ rise.alert_threshold > e.alert_threshold
                                    => Cardinality(MailedForIn(i + 1, rise.target, rise.rule)) = 1

\* The usage sequence of the claim in a series of `family`: the first run
\* records 95, the second finds only 90 exceeded, the third finds 95
\* exceeded again and has `mails` notifications for the rule.
UpDownUp(family, mails) ==
    /\ series.family = family
    /\ Len(series.runs) = 3
    /\ \A i \in 1..3 : Completed(i)
    /\ \E e \in EvaluatedIn(2) :
          /\ FallsBelowRecorded(2, e)
          /\ e.alert_threshold = 90
          /\ EntryThreshold(series.runs[2].loaded, family, e.target, e.rule) = 95
          /\ \E rise \in EvaluatedIn(3) :
                /\ rise.target = e.target
                /\ rise.rule = e.rule
                /\ rise.alert_threshold = 95
                /\ Cardinality(MailedForIn(3, rise.target, rise.rule)) = mails

\* Capacity: up, down and up again, and the third run is silent.
C23_Witness ==
    /\ UpDownUp("capacity", 0)
    /\ HistoryLeft(2).capacity["warn"].alert_threshold = 95

\* Quota: up, down and up again, and the third run notifies.
C23_QuotaRiseReached ==
    /\ UpDownUp("quota", 1)
    /\ HistoryLeft(2).quotas["/eng"]["warn"].alert_threshold = 90

---------------------------------------------------------------------------
(* C24: capacity and replication record the alert before it is sent        *)

\* The notification on which the mailer raised in the i-th run.
FailedMail(i) == series.runs[i].notify[series.runs[i].failAt]

\* The runs after the i-th up to the j-th found the metrics of the i-th.
MetricsUnchanged(i, j) ==
    \A k \in (i + 1)..j : series.runs[k].metrics = series.runs[i].metrics

\* C24: in the capacity and replication families the history is saved
\* before the notification of a rule is dispatched, so when the dispatch
\* fails the condition is already recorded as alerted, and no later run with
\* unchanged metrics emits a notification for that rule: the alert is not
\* delivered until the condition clears and recurs, or escalates.
C24_FailedDispatchIsRecorded ==
    series.family \in {"capacity", "replication"} =>
        \A i \in DOMAIN series.runs :
            series.runs[i].error = "mail" =>
                /\ series.runs[i].saves >= 1
                /\ HasEntry(HistoryLeft(i), series.family,
                            FailedMail(i).target, FailedMail(i).rule)
                /\ series.family = "capacity" =>
                      EntryThreshold(HistoryLeft(i), "capacity",
                                     FailedMail(i).target, FailedMail(i).rule)
                          = FailedMail(i).alert_threshold
                /\ \A j \in DOMAIN series.runs :
                      j > i /\ MetricsUnchanged(i, j) =>
                          /\ MailedForIn(j, FailedMail(i).target, FailedMail(i).rule) = {}
                          /\ HasEntry(HistoryLeft(j), series.family,
                                      FailedMail(i).target, FailedMail(i).rule)

\* The first run of a series of `family` dies on the e-mail of rule warn,
\* and two runs on the same metrics follow, run to their end and send
\* nothing for warn.
UndeliveredAlert(family) ==
    /\ series.family = family
    /\ Len(series.runs) = 3
    /\ series.runs[1].error = "mail"
    /\ FailedMail(1).rule = "warn"
    /\ MetricsUnchanged(1, 3)
    /\ Completed(2)
    /\ Completed(3)
    /\ \A j \in 2..3 : MailedForIn(j, FailedMail(1).target, "warn") = {}

C24_Witness == UndeliveredAlert("capacity")

C24_ReplicationReached == UndeliveredAlert("replication")

---------------------------------------------------------------------------
(* C25: the quota family records its alerts after they are sent            *)

\* The history file after the i-th run of the series.
FileLeft(i) ==
    IF i < Len(series.runs) THEN series.runs[i + 1].file ELSE history_file

\* C25: in the quota family the history is saved only after every
\* notification of the run has been dispatched, so when a dispatch fails the
\* persisted history is left exactly as it was loaded, and the next run with
\* unchanged metrics has every quota notification of the failed run to send
\* again, those delivered before the failure included, and sends them all
\* when its own mailer does not raise.
C25_QuotaFailedDispatchIsForgotten ==
    series.family = "quota" =>
        \A i \in DOMAIN series.runs :
            /\ Completed(i) =>
                  /\ series.runs[i].saves = 1
                  /\ FileLeft(i) = save_history(series.runs[i].file, series.runs[i].computed)
            /\ series.runs[i].error = "mail" =>
                  /\ series.runs[i].saves = 0
                  /\ FileLeft(i) = series.runs[i].file
                  /\ HistoryLeft(i) = series.runs[i].loaded
                  /\ i < Len(series.runs) /\ MetricsUnchanged(i, i + 1) =>
                        /\ series.runs[i + 1].notify = series.runs[i].notify
                        /\ Completed(i + 1) =>
                              MailedIn(i + 1) = series.runs[i].notify

\* A quota run delivers one e-mail and dies on the second; the next run finds
\* the same metrics, runs to its end and sends them all again.
C25_Witness ==
    /\ series.family = "quota"
    /\ Len(series.runs) >= 2
    /\ series.runs[1].error = "mail"
    /\ series.runs[1].failAt = 2
    /\ MetricsUnchanged(1, 2)
    /\ Completed(2)
    /\ Len(MailedIn(2)) >= 2
    /\ MailedIn(2)[1] = MailedIn(1)[1]
    /\ MailedIn(2)[2] = FailedMail(1)

---------------------------------------------------------------------------
(* C26: replication stays silent while errors persist                      *)

\* The aggregated error set of the i-th run.
ErroredIn(i) ==
    Range(ErrRelationships(series.runs[i].metrics.src, series.runs[i].metrics.tgt))

\* The i-th run has a notification for the replication rule.
NotifiesIn(i, rule) ==
    \E k \in DOMAIN series.runs[i].notify : series.runs[i].notify[k].rule = rule

\* C26: while a replication rule has a history entry and the aggregated
\* error set stays non-empty from run to run, no notification is emitted for
\* the rule, even when the errored relationships change (one more starts
\* failing, or another replaces the first); a new notification needs a run
\* with an empty error set in between.
C26_ReplicationSilentWhileErrorsPersist ==
    series.family = "replication" =>
        /\ \A i \in DOMAIN series.runs :
              \A rule \in DOMAIN series.runs[i].loaded.replication :
                  ErroredIn(i) # {} =>
                      /\ ~NotifiesIn(i, rule)
                      /\ rule \in DOMAIN HistoryLeft(i).replication
        /\ \A i, j \in DOMAIN series.runs :
              \A rule \in Names(series.config.replication_rules) :
                  i < j /\ NotifiesIn(i, rule) /\ NotifiesIn(j, rule) =>
                      \E k \in (i + 1)..(j - 1) : ErroredIn(k) = {}

\* The rules are notified in the first run; in the second one more
\* relationship fails, in the third only that one, and both runs are silent.
C26_Witness ==
    /\ series.family = "replication"
    /\ Len(series.runs) = 3
    /\ NotifiesIn(1, "warn")
    /\ Completed(1)
    /\ ErroredIn(1) # {}
    /\ ErroredIn(1) \subseteq ErroredIn(2)
    /\ ErroredIn(2) # ErroredIn(1)
    /\ ErroredIn(3) # {}
    /\ ErroredIn(3) \cap ErroredIn(1) = {}
    /\ series.runs[2].notify = <<>>
    /\ series.runs[3].notify = <<>>
    /\ "warn" \in DOMAIN HistoryLeft(3).replication

\* The rule is notified, the errors clear, and the rule is notified again.
C26_RenotifiedReached ==
    /\ series.family = "replication"
    /\ Len(series.runs) = 3
    /\ NotifiesIn(1, "warn")
    /\ ErroredIn(2) = {}
    /\ NotifiesIn(3, "warn")

=============================================================================
